---- MODULE Spec2Model ----
(***************************************************************************)
(* The semantic-analysis pass of TypeChecker.py: one TypeChecker instance  *)
(* visiting the statements of one program, top to bottom.                  *)
(*                                                                         *)
(* Python strings are sequences of one-character strings, so that          *)
(* startswith and the identifier pattern are computed on the characters.   *)
(* Values handed to is_type_compatible are tagged with their Python type,  *)
(* because the code passes it a dict and a str.                            *)
(*                                                                         *)
(* The parse tree comes from the generated parser: a node is modelled by   *)
(* the texts and children its accessors return.  Programs here use the     *)
(* term shapes TypeChecker.py handles itself (variable, literal,           *)
(* parenthesis); class accesses and createClass initialisers are visited   *)
(* by code outside this file and are not drawn as inputs.  Every accessor  *)
(* the code calls on a node is taken to return the child it names.         *)
(***************************************************************************)
EXTENDS Integers, Sequences, FiniteSets, TLC

\* ------------------------------------------------------------------ bounds
MaxStmts == 3
MaxOperands == 3
MaxParams == 1
MaxBody == 1

\* ------------------------------------------------------------- characters
Letter ==
    {"a","b","c","d","e","f","g","h","i","j","k","l","m","n","o","p","q","r",
     "s","t","u","v","w","x","y","z","A","B","C","D","E","F","G","H","I","J",
     "K","L","M","N","O","P","Q","R","S","T","U","V","W","X","Y","Z"}

Digit == {"0","1","2","3","4","5","6","7","8","9"}

\* the type names the code compares against
chunk == <<"c","h","u","n","k">>

fraction == <<"f","r","a","c","t","i","o","n">>

string == <<"s","t","r","i","n","g">>

none == <<"n","o","n","e">>

\* the names programs are written with: two well-formed variables, one name
\* without the sigil (also usable as a class or method name), one with the
\* sigil and a remainder that is no identifier
vA == <<"$","a">>

vB == <<"$","b">>

nC == <<"C","c">>

vBad == <<"$","1">>

Names == {vA, vB, nC, vBad}

TypeNames == {chunk, fraction, string, none, nC}

\* str.startswith
startswith(s, prefix) ==
    /\ Len(s) >= Len(prefix)
    /\ SubSeq(s, 1, Len(prefix)) = prefix

\* re.compile(r"^[a-zA-Z_][a-zA-Z0-9_]*$").match
valid_variable_pattern(s) ==
    /\ Len(s) >= 1
    /\ s[1] \in Letter \cup {"_"}
    /\ \A i \in 2..Len(s) : s[i] \in Letter \cup Digit \cup {"_"}

\* s[1:]
Tail1(s) == IF Len(s) = 0 THEN <<>> ELSE SubSeq(s, 2, Len(s))

\* ------------------------------------------------------------ Python values
PyStr(s) == [tag |-> "str", val |-> s]

PyDict(e) == [tag |-> "dict", val |-> e]

PyNone == [tag |-> "None", val |-> <<>>]

\* == between two Python values: values of different types are unequal
PyEq(a, b) == a.tag = b.tag /\ a.val = b.val

\* ------------------------------------------------------- analysis context
\* The fields of the TypeChecker instance, the records printed so far and the
\* exception in flight, threaded through every visit.
\*   st, order : symbol_table (a dict: the mapping and its insertion order)
\*   used      : used_variables
\*   imap      : inheritance_map; bound is FALSE while the attribute does not
\*               exist on the instance
\*   out       : the lines printed
\*   err       : the exception raised, kind "none" while none was
NoErr == [kind |-> "none", name |-> <<>>]

Raise(S, kind, name) == [S EXCEPT !.err = [kind |-> kind, name |-> name]]

Failed(S) == S.err.kind # "none"

\* symbol_table[name] = {"type": t, "line": l}: a new key goes last, an
\* existing key keeps its place and takes the new value
Put(S, name, t, l) ==
    [S EXCEPT
        !.st = [k \in DOMAIN S.st \cup {name} |->
                   IF k = name THEN [type |-> t, line |-> l] ELSE S.st[k]],
        !.order = IF name \in DOMAIN S.st THEN S.order ELSE Append(S.order, name)]

markVariableAsUsed(S, var_name) == [S EXCEPT !.used = S.used \cup {var_name}]

OutputRec(t) == [kind |-> "Output", name |-> t, line |-> 0]

WarningRec(var, l) == [kind |-> "Warning", name |-> var, line |-> l]

\* ----------------------------------------------------- is_type_compatible
\* inheritance_map.get(current_type, None): only a str can be a key that was
\* stored (keys are class-name texts)
MapGet(imap, current) ==
    IF current.tag = "str" /\ current.val \in DOMAIN imap.map
    THEN imap.map[current.val]
    ELSE PyNone

\* the while loop of is_type_compatible
RECURSIVE InheritanceWalk(_, _, _)
InheritanceWalk(current_type, declared_type, imap) ==
    IF current_type.tag = "None" THEN "False"
    ELSE IF PyEq(current_type, declared_type) THEN "True"
    ELSE InheritanceWalk(MapGet(imap, current_type), declared_type, imap)

\* "True" / "False", or the exception the call ends in: the attribute
\* inheritance_map is read before anything has created it, and a dict
\* cannot be looked up in a dict
is_type_compatible(declared_type, expr_type, imap) ==
    IF PyEq(declared_type, expr_type) THEN "True"
    ELSE IF ~imap.bound THEN "AttributeError"
    ELSE IF declared_type.tag = "dict" THEN "TypeError"
    ELSE IF declared_type.val \in DOMAIN imap.map
         THEN InheritanceWalk(expr_type, declared_type, imap)
         ELSE "False"

\* -------------------------------------------------------------- expressions
\* A term node: kind names the child that is present (variableName, literal,
\* expression); lit names the literal's child.  A multiplicative node is the
\* sequence of its terms, an additive node (and so an expression) the
\* sequence of its multiplicative nodes.
VarTerm(n) == [kind |-> "variableName", name |-> n, lit |-> "", inner |-> <<>>]

LitTerm(l) == [kind |-> "literal", name |-> <<>>, lit |-> l, inner |-> <<>>]

ParenTerm(e) == [kind |-> "expression", name |-> <<>>, lit |-> "", inner |-> e]

\* the result of visiting an expression node: its type and the context after
Val(t, S) == [ty |-> t, S |-> S]

visitLiteral(t, S) ==
    IF t.lit = "chunkLiteral" THEN Val(chunk, S)
    ELSE IF t.lit = "fractionLiteral" THEN Val(fraction, S)
    ELSE IF t.lit = "stringLiteral" THEN Val(string, S)
    ELSE Val(<<>>, Raise(S, "UnsupportedConstructError", <<>>))

\* the promotion of the left operand (first branch of the if/elif)
PromoteLeft(left_type, right_type) ==
    IF left_type = chunk /\ right_type = fraction THEN fraction ELSE left_type

\* PromoteRight without the elif branch: the right operand is never promoted
PromoteRightNever(left_type, right_type) == right_type

\* the promotion of the right operand (the elif branch)
PromoteRight(left_type, right_type) ==
    IF left_type = chunk /\ right_type = fraction THEN right_type
    ELSE IF left_type = fraction /\ right_type = chunk THEN fraction
    ELSE right_type

\* the test after the promotion, in the additive loop: the running left type
\* and the context go on, or the types differ
AdditiveStep(left_type, r) ==
    IF Failed(r.S) THEN r
    ELSE IF PromoteLeft(left_type, r.ty) # PromoteRight(left_type, r.ty)
    THEN Val(<<>>, Raise(r.S, "TypeMismatchError", <<>>))
    ELSE Val(PromoteLeft(left_type, r.ty), r.S)

\* the same test in the multiplicative loop
MultiplicativeStep(left_type, r) ==
    IF Failed(r.S) THEN r
    ELSE IF PromoteLeft(left_type, r.ty) # PromoteRight(left_type, r.ty)
    THEN Val(<<>>, Raise(r.S, "TypeMismatchError", <<>>))
    ELSE Val(PromoteLeft(left_type, r.ty), r.S)

RECURSIVE visitExpression(_, _)
RECURSIVE visitAdditiveExpression(_, _)
RECURSIVE AdditiveLoop(_, _, _)
RECURSIVE visitMultiplicativeExpression(_, _)
RECURSIVE MultiplicativeLoop(_, _, _)
RECURSIVE visitTerm(_, _)

visitTerm(t, S) ==
    IF t.kind = "variableName" THEN
        IF t.name \notin DOMAIN S.st
        THEN Val(<<>>, Raise(S, "UndeclaredVariableError", t.name))
        ELSE Val(S.st[t.name].type, markVariableAsUsed(S, t.name))
    ELSE IF t.kind = "literal" THEN visitLiteral(t, S)
    ELSE IF t.kind = "expression" THEN visitExpression(t.inner, S)
    ELSE Val(<<>>, Raise(S, "UnsupportedConstructError", <<>>))

\* for i in range(i, len(ctx.term())); acc holds the running left_type and
\* the context, and a raise leaves the loop
MultiplicativeLoop(terms, i, acc) ==
    IF i > Len(terms) \/ Failed(acc.S) THEN acc
    ELSE MultiplicativeLoop(terms, i + 1,
             MultiplicativeStep(acc.ty, visitTerm(terms[i], acc.S)))

visitMultiplicativeExpression(terms, S) ==
    IF Len(terms) = 1 THEN visitTerm(terms[1], S)
    ELSE MultiplicativeLoop(terms, 2, visitTerm(terms[1], S))

\* for i in range(i, len(ctx.multiplicativeExpression())); acc holds the
\* running left_type and the context
AdditiveLoop(ops, i, acc) ==
    IF i > Len(ops) \/ Failed(acc.S) THEN acc
    ELSE AdditiveLoop(ops, i + 1,
             AdditiveStep(acc.ty, visitMultiplicativeExpression(ops[i], acc.S)))

visitAdditiveExpression(ops, S) ==
    IF Len(ops) = 1 THEN visitMultiplicativeExpression(ops[1], S)
    ELSE AdditiveLoop(ops, 2, visitMultiplicativeExpression(ops[1], S))

visitExpression(e, S) == visitAdditiveExpression(e, S)

\* --------------------------------------------------------------- statements
\* Parse-tree nodes, by what the accessors of the generated parser return.
NoExpr == [has |-> FALSE, expr |-> <<>>]

SomeExpr(e) == [has |-> TRUE, expr |-> e]

NoText == [has |-> FALSE, text |-> <<>>]

SomeText(t) == [has |-> TRUE, text |-> t]

Signature(n, t) == [name |-> n, type |-> t]

ShowNode(e) ==
    [kind |-> "show", name |-> <<>>, type |-> <<>>, init |-> NoExpr, expr |-> e]

VarDeclNode(n, t, i) ==
    [kind |-> "variableDeclaration", name |-> n, type |-> t, init |-> i,
     expr |-> <<>>]

AssignNode(n, e) ==
    [kind |-> "assignment", name |-> n, type |-> <<>>, init |-> NoExpr,
     expr |-> e]

\* methodSignature (name, type, parametersInit) and methodBlock (its
\* statements, then an optional returnStatement)
MethodNode(n, t, ps, b, r) ==
    [name |-> n, type |-> t, params |-> ps, body |-> b, ret |-> r]

\* className, classDeclaration().inherit(), parentClass(), the field
\* signatures and the method declarations
ClassNode(n, sup, par, fs, ms) ==
    [name |-> n, super |-> sup, parent |-> par, fields |-> fs, methods |-> ms]

\* visitShowStatement once the expression was visited
ShowResult(r) ==
    IF Failed(r.S) THEN r.S
    ELSE IF r.ty = none THEN Raise(r.S, "InvalidOperationError", <<>>)
    ELSE [r.S EXCEPT !.out = Append(r.S.out, OutputRec(r.ty))]

visitShowStatement(e, line, S) == ShowResult(visitExpression(e, S))

\* if init_type != var_type: raise
CheckInitializer(r, var_type, var_name) ==
    IF Failed(r.S) THEN r.S
    ELSE IF r.ty # var_type THEN Raise(r.S, "TypeMismatchError", var_name)
    ELSE r.S

\* the tail of visitVariableDeclaration: the insertion and the initializer
DeclareAndInitialize(var_name, var_type, initializer, line, S) ==
    IF ~initializer.has THEN Put(S, var_name, var_type, line)
    ELSE CheckInitializer(
             visitExpression(initializer.expr, Put(S, var_name, var_type, line)),
             var_type, var_name)

\* visitVariableDeclaration without the startswith('$') test
visitVariableDeclarationNoSigil(var_name, var_type, initializer, line, S) ==
    IF ~valid_variable_pattern(Tail1(var_name))
    THEN Raise(S, "InvalidNameError", var_name)
    ELSE IF var_name \in DOMAIN S.st
    THEN Raise(S, "RedeclarationError", var_name)
    ELSE DeclareAndInitialize(var_name, var_type, initializer, line, S)

\* visitVariableDeclaration without the redeclaration test
visitVariableDeclarationOverwrite(var_name, var_type, initializer, line, S) ==
    IF ~startswith(var_name, <<"$">>)
    THEN Raise(S, "InvalidNameError", var_name)
    ELSE IF ~valid_variable_pattern(Tail1(var_name))
    THEN Raise(S, "InvalidNameError", var_name)
    ELSE DeclareAndInitialize(var_name, var_type, initializer, line, S)

visitVariableDeclaration(var_name, var_type, initializer, line, S) ==
    IF ~startswith(var_name, <<"$">>)
    THEN Raise(S, "InvalidNameError", var_name)
    ELSE IF ~valid_variable_pattern(Tail1(var_name))
    THEN Raise(S, "InvalidNameError", var_name)
    ELSE IF var_name \in DOMAIN S.st
    THEN Raise(S, "RedeclarationError", var_name)
    ELSE DeclareAndInitialize(var_name, var_type, initializer, line, S)

\* if not self.is_type_compatible(...): raise; c is what the call ended in
CompatibilityOutcome(c, S, var_name) ==
    IF c = "True" THEN S
    ELSE IF c = "False" THEN Raise(S, "TypeMismatchError", var_name)
    ELSE Raise(S, c, var_name)

\* the tail of visitAssignment: declared_type was read, the expression was
\* visited with result r
CheckAssignment(declared_type, r, var_name) ==
    IF Failed(r.S) THEN r.S
    ELSE CompatibilityOutcome(
             is_type_compatible(declared_type, PyStr(r.ty), r.S.imap),
             r.S, var_name)

\* visitAssignment marking the target used before looking it up
visitAssignmentMarkFirst(var_name, e, line, S) ==
    IF var_name \notin DOMAIN S.st
    THEN Raise([S EXCEPT !.used = S.used \cup {var_name}],
               "UndeclaredVariableError", var_name)
    ELSE CheckAssignment(PyDict(S.st[var_name]),
                         visitExpression(e, [S EXCEPT !.used = S.used \cup {var_name}]),
                         var_name)

\* declared_type is the whole symbol-table entry, expr_type a type name
visitAssignment(var_name, e, line, S) ==
    IF var_name \notin DOMAIN S.st
    THEN Raise(S, "UndeclaredVariableError", var_name)
    ELSE CheckAssignment(PyDict(S.st[var_name]),
                         visitExpression(e, [S EXCEPT !.used = S.used \cup {var_name}]),
                         var_name)

\* the dispatch of self.visit on a statement of a method block
visitStatement(stmt, line, S) ==
    IF stmt.kind = "show" THEN visitShowStatement(stmt.expr, line, S)
    ELSE IF stmt.kind = "variableDeclaration"
    THEN visitVariableDeclaration(stmt.name, stmt.type, stmt.init, line, S)
    ELSE visitAssignment(stmt.name, stmt.expr, line, S)

\* for param in parameters: symbol_table[var_name] = {...}
RECURSIVE AddSignatures(_, _, _, _)
AddSignatures(sigs, i, line, S) ==
    IF i > Len(sigs) THEN S
    ELSE AddSignatures(sigs, i + 1, line, Put(S, sigs[i].name, sigs[i].type, line))

\* self.visit(ctx.methodBlock()): the children in order, the statements and
\* then the return statement's expression
RECURSIVE VisitBlockStatements(_, _, _, _)
VisitBlockStatements(stmts, i, line, S) ==
    IF i > Len(stmts) \/ Failed(S) THEN S
    ELSE VisitBlockStatements(stmts, i + 1, line, visitStatement(stmts[i], line, S))

\* the return statement as the last child of the block
VisitBlockReturn(m, S) ==
    IF Failed(S) \/ ~m.ret.has THEN S
    ELSE visitExpression(m.ret.expr, S).S

visitMethodBlock(m, line, S) ==
    VisitBlockReturn(m, VisitBlockStatements(m.body, 1, line, S))

\* if return_expr_type != return_type: raise
CheckReturnType(m, r) ==
    IF Failed(r.S) THEN r.S
    ELSE IF r.ty # m.type THEN Raise(r.S, "TypeMismatchError", m.name)
    ELSE r.S

\* the return-type validation after the block was visited
ValidateReturn(m, S) ==
    IF Failed(S) \/ ~m.ret.has THEN S
    ELSE CheckReturnType(m, visitExpression(m.ret.expr, S))

\* visitMethodDeclaration once the parameters are in the symbol table
MethodAfterParameters(m, line, S) ==
    IF m.name \in DOMAIN S.st
    THEN Raise(S, "RedeclarationError", m.name)
    ELSE ValidateReturn(m, visitMethodBlock(m, line, S))

visitMethodDeclaration(m, line, S) ==
    MethodAfterParameters(m, line, AddSignatures(m.params, 1, line, S))

\* for method in ctx.methodDeclaration(): self.visitMethodDeclaration(method)
RECURSIVE VisitMethods(_, _, _, _)
VisitMethods(ms, i, line, S) ==
    IF i > Len(ms) \/ Failed(S) THEN S
    ELSE VisitMethods(ms, i + 1, line, visitMethodDeclaration(ms[i], line, S))

\* self.inheritance_map[class_name] = superclass_name (the node inherit()
\* returned) or None
RecordParent(c, S) ==
    [S EXCEPT !.imap.map =
        [k \in DOMAIN S.imap.map \cup {c.name} |->
            IF k # c.name THEN S.imap.map[k]
            ELSE IF c.super.has THEN [tag |-> "ctx", val |-> c.super.text]
            ELSE PyNone]]

\* visitClassDeclaration once the parent is recorded: self.visit(parent_class)
\* is handed a str; then the fields and the methods
ClassAfterParent(c, line, S) ==
    IF c.parent.has
    THEN Raise(S, "AttributeError", c.name)
    ELSE VisitMethods(c.methods, 1, line, AddSignatures(c.fields, 1, line, S))

\* The assignment to self.inheritance_map[class_name] reads an attribute
\* __init__ never creates.
visitClassDeclaration(c, line, S) ==
    IF c.name \in DOMAIN S.st
    THEN Raise(S, "RedeclarationError", c.name)
    ELSE IF ~S.imap.bound
    THEN Raise(S, "AttributeError", c.name)
    ELSE ClassAfterParent(c, line, RecordParent(c, S))

\* --------------------------------------------------------------------- state
VARIABLES
    symbol_table,      \* self.symbol_table: name -> [type, line]
    order,             \* the insertion order of symbol_table's keys
    used_variables,    \* self.used_variables
    inheritance_map,   \* self.inheritance_map, unbound until something sets it
    out,               \* the records printed, in order
    err,               \* the exception that ended the run, if any
    pc,                \* "visiting", "done" (swept) or "failed" (raised)
    last,              \* the top-level statement visited last: kind and name
    nvisited,          \* how many top-level statements were visited
    pending            \* the expression of a one-statement program, or <<>>

vars ==
    <<symbol_table, order, used_variables, inheritance_map, out, err, pc,
      last, nvisited, pending>>

\* the context the next visit starts from
Ctx ==
    [st |-> symbol_table, order |-> order, used |-> used_variables,
     imap |-> inheritance_map, out |-> out, err |-> err]

\* __init__: symbol_table = {}, used_variables = set(); inheritance_map is
\* not assigned
Fresh ==
    /\ symbol_table = <<>>
    /\ order = <<>>
    /\ used_variables = {}
    /\ inheritance_map = [bound |-> FALSE, map |-> <<>>]
    /\ out = <<>>
    /\ err = NoErr
    /\ pc = "visiting"
    /\ last = [kind |-> "start", name |-> <<>>]
    /\ nvisited = 0

\* a program whose statements are drawn one visit at a time
Init == Fresh /\ pending = <<>>

\* -------------------------------------------------------------------- inputs
Seqs(S, lo, hi) == UNION {[1..n -> S] : n \in lo..hi}

Literals == {"chunkLiteral", "fractionLiteral", "stringLiteral"}

LitTerms == {LitTerm(l) : l \in Literals}

VarTerms == {VarTerm(n) : n \in Names}

\* expressions of one term
AtomExprs == {<< <<t>> >> : t \in LitTerms \cup VarTerms}

\* additive nodes of 2..MaxOperands literal operands
SumExprs ==
    {[i \in 1..Len(ts) |-> <<ts[i]>>] : ts \in Seqs(LitTerms, 2, MaxOperands)}

\* multiplicative nodes of 2..MaxOperands literal terms
ProductExprs == {<<ts>> : ts \in Seqs(LitTerms, 2, MaxOperands)}

\* a variable on either side of a literal, a product inside a sum, and
\* parentheses
MixedExprs ==
    {<< <<VarTerm(vA)>>, <<t>> >> : t \in LitTerms}
    \cup {<< <<t, VarTerm(vA)>> >> : t \in LitTerms}
    \cup {<< <<LitTerm("chunkLiteral"), t>>, <<LitTerm("chunkLiteral")>> >> :
             t \in LitTerms}
    \cup {<< <<ParenTerm(<< <<LitTerm("chunkLiteral")>>, <<t>> >>), t>> >> :
             t \in LitTerms}

ShowExprs == AtomExprs \cup MixedExprs

\* the operands of the programs that are a single show statement
FoldExprs == AtomExprs \cup SumExprs \cup ProductExprs \cup MixedExprs

Initializers ==
    {NoExpr,
     SomeExpr(<< <<LitTerm("chunkLiteral")>> >>),
     SomeExpr(<< <<LitTerm("stringLiteral")>> >>),
     SomeExpr(<< <<VarTerm(vA)>> >>),
     SomeExpr(<< <<LitTerm("chunkLiteral")>>, <<LitTerm("fractionLiteral")>> >>)}

AssignExprs == AtomExprs

ParamSigs == {Signature(vA, string), Signature(vBad, fraction)}

BodyStmts ==
    {ShowNode(<< <<VarTerm(vA)>> >>),
     VarDeclNode(vB, chunk, NoExpr)}

ReturnExprs == {NoExpr, SomeExpr(<< <<VarTerm(vA)>> >>)}

Methods ==
    {MethodNode(n, t, ps, b, r) :
        n \in {nC, vA}, t \in {chunk},
        ps \in Seqs(ParamSigs, 0, MaxParams),
        b \in Seqs(BodyStmts, 0, MaxBody), r \in ReturnExprs}

Classes ==
    {ClassNode(n, sup, par, fs, <<>>) :
        n \in {nC, vA}, sup \in {NoText, SomeText(nC)},
        par \in {NoText, SomeText(nC)},
        fs \in Seqs({Signature(vA, chunk)}, 0, 1)}

\* ------------------------------------------------------------------- actions
\* Visited with the exception swallowed: the loop goes on to the next
\* statement
VisitedAndContinued(S, kind, name) ==
    /\ symbol_table' = S.st
    /\ order' = S.order
    /\ used_variables' = S.used
    /\ inheritance_map' = S.imap
    /\ out' = S.out
    /\ err' = S.err
    /\ pc' = "visiting"
    /\ last' = [kind |-> kind, name |-> name]
    /\ nvisited' = nvisited + 1
    /\ pending' = pending

\* One iteration of visitProgram's loop leaves the context S; an exception
\* propagates out of visitProgram and ends the run.
Visited(S, kind, name) ==
    /\ symbol_table' = S.st
    /\ order' = S.order
    /\ used_variables' = S.used
    /\ inheritance_map' = S.imap
    /\ out' = S.out
    /\ err' = S.err
    /\ pc' = IF Failed(S) THEN "failed" ELSE "visiting"
    /\ last' = [kind |-> kind, name |-> name]
    /\ nvisited' = nvisited + 1
    /\ pending' = pending

\* the loop of visitProgram has a next statement
MoreStatements == pc = "visiting" /\ nvisited < MaxStmts /\ pending = <<>>

VisitShow ==
    /\ MoreStatements
    /\ \E e \in ShowExprs :
        Visited(visitShowStatement(e, nvisited + 1, Ctx), "show", <<>>)

VisitVariableDeclaration ==
    /\ MoreStatements
    /\ \E n \in Names, t \in TypeNames, i \in Initializers :
        Visited(visitVariableDeclaration(n, t, i, nvisited + 1, Ctx),
                "variableDeclaration", n)

VisitAssignment ==
    /\ MoreStatements
    /\ \E n \in Names, e \in AssignExprs :
        Visited(visitAssignment(n, e, nvisited + 1, Ctx), "assignment", n)

VisitMethodDeclaration ==
    /\ MoreStatements
    /\ \E m \in Methods :
        Visited(visitMethodDeclaration(m, nvisited + 1, Ctx),
                "methodDeclaration", m.name)

VisitClassDeclaration ==
    /\ MoreStatements
    /\ \E c \in Classes :
        Visited(visitClassDeclaration(c, nvisited + 1, Ctx),
                "classDeclaration", c.name)

\* UnusedWarnings without the test "var not in self.used_variables"
RECURSIVE UnusedWarningsAll(_, _, _, _)
UnusedWarningsAll(keys, i, st, used) ==
    IF i > Len(keys) THEN <<>>
    ELSE <<WarningRec(keys[i], st[keys[i]].line)>>
         \o UnusedWarningsAll(keys, i + 1, st, used)

\* for var, info in self.symbol_table.items(): the warnings, in insertion
\* order
RECURSIVE UnusedWarnings(_, _, _, _)
UnusedWarnings(keys, i, st, used) ==
    IF i > Len(keys) THEN <<>>
    ELSE (IF keys[i] \notin used
          THEN <<WarningRec(keys[i], st[keys[i]].line)>>
          ELSE <<>>) \o UnusedWarnings(keys, i + 1, st, used)

\* the statements are exhausted: the sweep after the loop
SweepUnused ==
    /\ pc = "visiting"
    /\ out' = out \o UnusedWarnings(order, 1, symbol_table, used_variables)
    /\ pc' = "done"
    /\ UNCHANGED <<symbol_table, order, used_variables, inheritance_map, err,
                   last, nvisited, pending>>

Next ==
    \/ VisitShow
    \/ VisitVariableDeclaration
    \/ VisitAssignment
    \/ VisitMethodDeclaration
    \/ VisitClassDeclaration
    \/ SweepUnused

Spec == Init /\ [][Next]_vars

\* The programs "show <expression>": the expression is drawn at the start
\* and the one statement is visited, then the sweep runs.
InitExpr == Fresh /\ pending \in FoldExprs

ShowPending ==
    /\ pc = "visiting"
    /\ nvisited = 0
    /\ pending # <<>>
    /\ Visited(visitShowStatement(pending, 1, Ctx), "show", <<>>)

SweepAfterShow == nvisited = 1 /\ SweepUnused

NextExpr == ShowPending \/ SweepAfterShow

SpecExpr == InitExpr /\ [][NextExpr]_vars

\* ==================================================================== claims
\* a step that visited one more top-level statement
VisitedOne == nvisited' = nvisited + 1

\* a name made of the sigil and an identifier
SigilAndIdentifier(n) ==
    /\ Len(n) >= 2
    /\ n[1] = "$"
    /\ n[2] \in Letter \cup {"_"}
    /\ \A i \in 3..Len(n) : n[i] \in Letter \cup Digit \cup {"_"}

WarningIdx == {i \in 1..Len(out) : out[i].kind = "Warning"}

OutputIdx == {i \in 1..Len(out) : out[i].kind = "Output"}

\* C1: a variable declaration whose name lacks the sigil, or whose remainder
\* is no identifier, ends in InvalidNameError and leaves the symbol table
\* (mapping and order) and the used-variables set as they were.
C1_InvalidNameRejected ==
    [][(/\ VisitedOne
        /\ last'.kind = "variableDeclaration"
        /\ ~SigilAndIdentifier(last'.name))
       => (/\ err'.kind = "InvalidNameError"
           /\ err'.name = last'.name
           /\ symbol_table' = symbol_table
           /\ order' = order
           /\ used_variables' = used_variables)]_vars

\* an ill-named declaration was rejected in a run that had declared something
C1_Witness ==
    /\ err.kind = "InvalidNameError"
    /\ last.kind = "variableDeclaration"
    /\ ~startswith(last.name, <<"$">>)
    /\ DOMAIN symbol_table # {}

\* C2: a variable declaration with a well-formed name that is already a key
\* of the symbol table ends in RedeclarationError and the table is unchanged.
C2_RedeclarationRejected ==
    [][(/\ VisitedOne
        /\ last'.kind = "variableDeclaration"
        /\ SigilAndIdentifier(last'.name)
        /\ last'.name \in DOMAIN symbol_table)
       => (/\ err'.kind = "RedeclarationError"
           /\ err'.name = last'.name
           /\ symbol_table' = symbol_table
           /\ order' = order)]_vars

\* a declaration was rejected for a key an earlier statement had inserted
C2_Witness ==
    /\ err.kind = "RedeclarationError"
    /\ last.kind = "variableDeclaration"
    /\ last.name \in DOMAIN symbol_table
    /\ symbol_table[last.name].line < nvisited

\* C3: a method (class) declaration that follows an accepted method (class)
\* declaration of the same name ends in RedeclarationError.
C3_SecondDeclarationRejected ==
    [][(/\ VisitedOne
        /\ last.kind \in {"methodDeclaration", "classDeclaration"}
        /\ last'.kind = last.kind
        /\ last'.name = last.name)
       => err'.kind = "RedeclarationError"]_vars

\* sub is base, or base is reached from sub along recorded parents
RECURSIVE DescendsWithin(_, _, _)
DescendsWithin(sub, base, fuel) ==
    \/ sub = base
    \/ /\ fuel > 0
       /\ inheritance_map.bound
       /\ sub \in DOMAIN inheritance_map.map
       /\ inheritance_map.map[sub].tag # "None"
       /\ DescendsWithin(inheritance_map.map[sub].val, base, fuel - 1)

\* what the claim gives for the assignment n = <expression>, whose right-hand
\* side was visited with result rhs and whose visit left the context after
AssignmentAsClaimed(n, rhs, after) ==
    ~Failed(rhs.S) =>
        IF DescendsWithin(rhs.ty, symbol_table[n].type, Cardinality(Names))
        THEN after.err.kind = "none"
        ELSE after.err.kind = "TypeMismatchError"

\* C4: an assignment to a declared variable succeeds exactly when the type of
\* the right-hand side is the declared type name or a descendant of it in the
\* inheritance map, and fails with TypeMismatchError otherwise.
C4_AssignmentFollowsInheritance ==
    pc = "visiting" =>
        \A n \in DOMAIN symbol_table, e \in AssignExprs :
            AssignmentAsClaimed(n, visitExpression(e, Ctx),
                                visitAssignment(n, e, nvisited + 1, Ctx))

\* the type of a literal term
LiteralType(t) ==
    IF t.lit = "chunkLiteral" THEN chunk
    ELSE IF t.lit = "fractionLiteral" THEN fraction
    ELSE string

\* the type the fold is to yield, <<>> for a mismatch
FoldExpected(ts) ==
    IF \A i \in 1..Len(ts) : ts[i] = chunk THEN chunk
    ELSE IF \A i \in 1..Len(ts) : ts[i] = string THEN string
    ELSE IF \A i \in 1..Len(ts) : ts[i] \in {chunk, fraction} THEN fraction
    ELSE <<>>

\* a sum or a product of two or more operands, built of literals
IsLiteralNode(e) ==
    /\ Len(e) >= 1
    /\ Len(e) >= 2 \/ Len(e[1]) >= 2
    /\ \A i \in 1..Len(e) : \A j \in 1..Len(e[i]) : e[i][j].kind = "literal"

ProductExpected(ts) == FoldExpected([j \in 1..Len(ts) |-> LiteralType(ts[j])])

NodeExpected(e) ==
    IF \E i \in 1..Len(e) : ProductExpected(e[i]) = <<>> THEN <<>>
    ELSE FoldExpected([i \in 1..Len(e) |-> ProductExpected(e[i])])

\* C5: a sum or product of two or more operands of types chunk, fraction and
\* string has type chunk when all are chunk, string when all are string,
\* fraction when all are chunk or fraction and one is fraction, and ends in
\* TypeMismatchError otherwise.  Checked on the nodes built of literals: the
\* operands of a sum are literals or products of literals.
C5_FoldResult ==
    (last.kind = "show" /\ IsLiteralNode(pending))
    => LET expected == NodeExpected(pending)
       IN IF expected = <<>>
          THEN err.kind = "TypeMismatchError" /\ OutputIdx = {}
          ELSE err.kind = "none" /\ out[1] = OutputRec(expected)

\* fraction + chunk was shown as fraction
C5_Witness ==
    /\ pending = << <<LitTerm("fractionLiteral")>>, <<LitTerm("chunkLiteral")>> >>
    /\ last.kind = "show"
    /\ Len(out) >= 1
    /\ out[1] = OutputRec(fraction)

\* the keys the sweep is to warn about, and a key's place in the dict
UnusedKeys == DOMAIN symbol_table \ used_variables

Position(k) == CHOOSE i \in 1..Len(order) : order[i] = k

\* C6: no warning is printed before the run is done; a finished run has
\* printed exactly one warning per key that is not in the used set and none
\* for any other name, each with the entry's line, in insertion order, all
\* after every Output record.
C6_UnusedWarnings ==
    /\ pc # "done" => WarningIdx = {}
    /\ pc = "done" =>
        /\ \A i \in WarningIdx : \A j \in OutputIdx : j < i
        /\ \A k \in UnusedKeys :
              Cardinality({i \in WarningIdx : out[i].name = k}) = 1
        /\ \A i \in WarningIdx :
              /\ out[i].name \in UnusedKeys
              /\ out[i].line = symbol_table[out[i].name].line
        /\ \A i, j \in WarningIdx :
              i < j => Position(out[i].name) < Position(out[j].name)

\* a finished run with an Output record, a used variable and a warning
C6_Witness ==
    /\ pc = "done"
    /\ OutputIdx # {}
    /\ WarningIdx # {}
    /\ used_variables # {}

\* C7: every step starts from a running state in which nothing was raised; a
\* raise ends the run ("failed") with no warning printed, and the sweep
\* ("done") happens only in a run that raised nothing.
C7_FailFast ==
    [][/\ pc = "visiting"
       /\ err.kind = "none"
       /\ (err'.kind # "none") = (pc' = "failed")
       /\ pc' = "failed" => {i \in 1..Len(out') : out'[i].kind = "Warning"} = {}
       /\ pc' = "done" => err'.kind = "none"]_vars

\* a run that failed with statements still to come and entries in the table
C7_Witness ==
    /\ pc = "failed"
    /\ nvisited < MaxStmts
    /\ DOMAIN symbol_table # {}

\* C8: every key of the symbol table is the sigil and an identifier, and no
\* step changes or removes an existing entry.
C8_KeysValidatedAndKept ==
    [][/\ \A k \in DOMAIN symbol_table' : SigilAndIdentifier(k)
       /\ \A k \in DOMAIN symbol_table :
             /\ k \in DOMAIN symbol_table'
             /\ symbol_table'[k] = symbol_table[k]]_vars

\* C9: the used set holds only keys of the symbol table, and the name an
\* UndeclaredVariableError names is in neither.
C9_UsedAreDeclared ==
    /\ used_variables \subseteq DOMAIN symbol_table
    /\ err.kind = "UndeclaredVariableError" =>
          /\ err.name \notin used_variables
          /\ err.name \notin DOMAIN symbol_table

\* an assignment into an absent name failed in a run that had used a variable
C9_Witness ==
    /\ err.kind = "UndeclaredVariableError"
    /\ last.kind = "assignment"
    /\ err.name = last.name
    /\ used_variables # {}

\* C10: in every state the inheritance map has no cycle, and
\* is_type_compatible answers true or false for every pair of type names.
C10_CompatibilityAnswers ==
    /\ \A c \in DOMAIN inheritance_map.map :
          \/ inheritance_map.map[c].tag = "None"
          \/ ~DescendsWithin(inheritance_map.map[c].val, c, Cardinality(Names))
    /\ \A d \in TypeNames, e \in TypeNames :
          is_type_compatible(PyStr(d), PyStr(e), inheritance_map)
              \in {"True", "False"}

====
